---- MODULE Spec2Model ----
(***************************************************************************)
(* scripts/diagrams.py: a linear batch pipeline                            *)
(*   load -> clean -> language filter -> sentiment -> reshape -> 6 charts. *)
(* The script runs top to bottom once; an uncaught exception ends it.      *)
(*                                                                         *)
(* Python values are tagged records, so that cells of different Python     *)
(* types can sit in one column: Str(s) is a str (s its characters, one     *)
(* one-character string each), Num(n) a float or int, NaN the missing      *)
(* value, List(l) a list.  Ratings and rating counts are integer-valued    *)
(* floats; sentiment scores are floats counted in thousandths.             *)
(***************************************************************************)
EXTENDS Integers, Sequences, FiniteSets, TLC

\* ------------------------------------------------------------ bounds
MaxRows == 3
MaxBig == 11
CompoundMax == 1000

\* ------------------------------------------------- program constants
PosThreshold == 50
NegThreshold == -50
Percent == 100
TopN == 20
NameCut == 10

\* ---------------------------------------------------- Python values
Str(s) == [str |-> s]
Num(n) == [num |-> n]
NaN == [nan |-> TRUE]
List(l) == [list |-> l]
IsStr(v) == "str" \in DOMAIN v
IsNum(v) == "num" \in DOMAIN v
IsNaN(v) == "nan" \in DOMAIN v
IsList(v) == "list" \in DOMAIN v

Range(f) == {f[i] : i \in DOMAIN f}
Min(a, b) == IF a <= b THEN a ELSE b

\* A row with column col set to v (the column is added when absent).
With(r, col, v) == [c \in DOMAIN r \cup {col} |-> IF c = col THEN v ELSE r[c]]
\* The row's cells without its index label.
Cols(r) == [c \in DOMAIN r \ {"idx"} |-> r[c]]
\* The index of a frame: its rows' labels, in order.
Index(frame) == [i \in 1..Len(frame) |-> frame[i].idx]

\* ------------------------------------------------- string operations
DigitChars == <<"0", "1", "2", "3", "4", "5", "6", "7", "8", "9">>
IsDigit(ch) == \E d \in 1..10 : DigitChars[d] = ch
DigitVal(ch) == (CHOOSE d \in 1..10 : DigitChars[d] = ch) - 1

\* str.strip(chars) with the character set of the review cleaning step.
StripChars == {",", "U+1F538", "*", "-", "_", "\t", "\n", "+"}
RECURSIVE LStrip(_)
LStrip(s) ==
    IF s # <<>> /\ s[1] \in StripChars THEN LStrip(Tail(s)) ELSE s
RECURSIVE RStrip(_)
RStrip(s) ==
    IF s # <<>> /\ s[Len(s)] \in StripChars
    THEN RStrip(SubSeq(s, 1, Len(s) - 1)) ELSE s
Strip(s) == RStrip(LStrip(s))

\* str.split("|"): the segments between separators; never an empty list.
RECURSIVE Split(_)
Split(s) ==
    IF \A i \in 1..Len(s) : s[i] # "|"
    THEN <<s>>
    ELSE LET i == CHOOSE k \in 1..Len(s) :
                      s[k] = "|" /\ \A j \in 1..(k - 1) : s[j] # "|"
         IN <<SubSeq(s, 1, i - 1)>> \o Split(SubSeq(s, i + 1, Len(s)))

\* str.replace(",", ""): every comma removed.
RemoveCommas(s) ==
    LET NotComma(ch) == ch # ","
    IN SelectSeq(s, NotComma)

\* float(x) on a str of an optional minus sign and decimal digits (the
\* numeric texts of the modelled datasets); anything else raises ValueError.
RECURSIVE DigitsVal(_)
DigitsVal(s) ==
    IF s = <<>> THEN 0
    ELSE 10 * DigitsVal(SubSeq(s, 1, Len(s) - 1)) + DigitVal(s[Len(s)])
IsDigits(s) == s # <<>> /\ \A i \in 1..Len(s) : IsDigit(s[i])
CanFloat(v) ==
    \/ IsNum(v)
    \/ IsNaN(v)
    \/ /\ IsStr(v)
       /\ \/ IsDigits(v.str)
          \/ v.str # <<>> /\ v.str[1] = "-" /\ IsDigits(Tail(v.str))
Float(v) ==
    IF ~IsStr(v) THEN v
    ELSE IF v.str[1] = "-" THEN Num(-DigitsVal(Tail(v.str)))
    ELSE Num(DigitsVal(v.str))

\* str(x) of a non-negative int, and Series.astype(str) on a cell.
RECURSIVE NatToStr(_)
NatToStr(n) ==
    IF n < 10 THEN <<DigitChars[n + 1]>>
    ELSE NatToStr(n \div 10) \o <<DigitChars[(n % 10) + 1]>>
AsTypeStr(v) ==
    IF IsNum(v) THEN Str(NatToStr(v.num))
    ELSE IF IsNaN(v) THEN Str(<<"n", "a", "n">>)
    ELSE v

\* ------------------------------------------------------ the datasets
\* One line of ../data/raw/amazon.csv as read_csv yields it: every cell a
\* str, or NaN where the field is empty.
Line(name, cat, rating, count, review) ==
    [product_name |-> name, category |-> cat, rating |-> rating,
     rating_count |-> count, review_content |-> review]

ShortName == Str(<<"p">>)
LongName == Str(<<"p", "r", "o", "d", "u", "c", "t", "n", "a", "m", "e">>)

LinePool ==
    { Line(ShortName, Str(<<"a", "|", "b">>), Str(<<"4">>), Str(<<"1", ",", "2">>), Str(<<"g">>)),
      Line(ShortName, Str(<<"a", "|", "b">>), Str(<<"4">>), Str(<<"1", ",", "2">>), Str(<<"g", "*">>)),
      Line(ShortName, Str(<<"a">>), Str(<<"|">>), NaN, Str(<<"g">>)),
      Line(ShortName, Str(<<"b">>), Str(<<"|">>), Str(<<"1", "2">>), Str(<<"h">>)),
      Line(ShortName, Str(<<"a">>), Str(<<"x">>), Str(<<"1", "2">>), Str(<<"g">>)),
      Line(LongName, Str(<<>>), Str(<<"7">>), NaN, Str(<<"h">>)),
      Line(ShortName, Str(<<"b">>), Str(<<"1">>), Str(<<"-", "5">>), Str(<<"h">>)),
      Line(ShortName, Str(<<"a">>), Str(<<"5">>), Str(<<"1", "2">>), Str(<<"m">>)),
      Line(ShortName, NaN, Str(<<"4">>), Str(<<"1", "2">>), Str(<<"g">>)),
      Line(ShortName, Str(<<"a">>), Str(<<"4">>), Str(<<",">>), Str(<<"g">>)),
      Line(ShortName, Str(<<"a">>), Str(<<"4">>), Str(<<"1", "2">>), Str(<<"*">>)) }

Datasets == UNION {[1..n -> LinePool] : n \in 0..MaxRows}

VARIABLES csv, reports_dir, df, loop_index, loop_pos, sid, df_exploded,
          fig, files, pc, error

vars == <<csv, reports_dir, df, loop_index, loop_pos, sid, df_exploded,
          fig, files, pc, error>>

\* --------------------------------------------------- frame operations
\* pd.read_csv: the lines in file order under a RangeIndex 0..n-1.
ReadCsv(lines) == [i \in 1..Len(lines) |-> With(lines[i], "idx", i - 1)]

\* DataFrame.drop_duplicates(): a row goes when an earlier row has the same
\* cells in every column (NaN counts as equal to NaN); labels are kept.
DropDuplicates(frame) ==
    LET First(r) == \A q \in Range(frame) : q.idx < r.idx => Cols(q) # Cols(r)
    IN SelectSeq(frame, First)

\* df[col] = series: the column set row by row.
Assign(frame, col, series) ==
    [i \in 1..Len(frame) |-> With(frame[i], col, series[i])]

\* .str.strip(chars): NaN cells stay NaN.
StripCell(v) == IF IsStr(v) THEN Str(Strip(v.str)) ELSE v

\* lambda x: x.split("|"): a list of str; a NaN cell (a float) has no split.
CanSplit(v) == IsStr(v)
SplitCell(v) ==
    LET segs == Split(v.str)
    IN List([j \in 1..Len(segs) |-> Str(segs[j])])

\* df.loc[x, col] for a label x of the frame.
HasLabel(frame, x) == \E r \in Range(frame) : r.idx = x
Cell(frame, x, col) == (CHOOSE r \in Range(frame) : r.idx = x)[col]

\* A plausible slip: the label taken for a row position.
DropByPosition(frame, x) ==
    LET keep == {i \in 1..Len(frame) : i # x + 1}
        Kept(r) == \E i \in keep : frame[i] = r
    IN SelectSeq(frame, Kept)

\* df.drop(x, inplace=True): the rows labelled x go, the others keep their
\* order and labels.
Drop(frame, x) ==
    LET Other(r) == r.idx # x
    IN SelectSeq(frame, Other)

Sentinel == Str(<<"|">>)
IsSentinel(v) == v = Sentinel

\* The body of the rating loop for label x.
SentinelBody(frame, x) ==
    IF IsSentinel(Cell(frame, x, "rating")) THEN Drop(frame, x) ELSE frame

\* line 40: fillna(0)
FillNa(v) == IF IsNaN(v) THEN Num(0) ELSE v

\* A plausible slip: the commas left in place.
KeepCommas(v) == AsTypeStr(v)

\* line 41: astype(str).str.replace(",", "")
ReplaceCommas(v) == Str(RemoveCommas(AsTypeStr(v).str))

\* langdetect.detect, an external classifier: the reviews of the modelled
\* datasets are written with the letters g and h (English) and m (not
\* English); a text without a letter has no features and detect raises.
Letters == {"g", "h", "m"}
EnglishLetters == {"g", "h"}
CanDetect(v) == IsStr(v) /\ \E i \in 1..Len(v.str) : v.str[i] \in Letters
Detect(v) ==
    IF \A i \in 1..Len(v.str) : v.str[i] \in Letters => v.str[i] \in EnglishLetters
    THEN Str(<<"en">>) ELSE Str(<<"es">>)

\* line 45: the language column
DetectAll(frame) ==
    [i \in 1..Len(frame) |->
        With(frame[i], "language", Detect(frame[i].review_content))]

\* The body of the language loop for label x.
LanguageBody(frame, x) ==
    IF Cell(frame, x, "language") # Str(<<"en">>) THEN Drop(frame, x) ELSE frame

\* reset_index(drop=True): labels 0..n-1 again.
ResetIndex(frame) == [i \in 1..Len(frame) |-> With(frame[i], "idx", i - 1)]

\* -------------------------------------------------------------- state
Init ==
    /\ csv \in Datasets
    /\ reports_dir = FALSE
    /\ df = <<>>
    /\ loop_index = <<>>
    /\ loop_pos = 0
    /\ sid = <<>>
    /\ df_exploded = <<>>
    /\ fig = [chart |-> 0]
    /\ files = {}
    /\ pc = "makedirs"
    /\ error = "none"

\* An uncaught exception: the traceback names the statement, the run ends.
Raise(stage) == pc' = "halted" /\ error' = stage

\* line 12: os.makedirs(reports_dir, exist_ok=True)
MakeDirs ==
    /\ pc = "makedirs"
    /\ reports_dir' = TRUE
    /\ pc' = "read_csv"
    /\ UNCHANGED <<csv, df, loop_index, loop_pos, sid, df_exploded, fig, files, error>>

\* line 15: df = pd.read_csv(...)
Load ==
    /\ pc = "read_csv"
    /\ df' = ReadCsv(csv)
    /\ pc' = "drop_duplicates"
    /\ UNCHANGED <<csv, reports_dir, loop_index, loop_pos, sid, df_exploded, fig, files, error>>

\* line 18: df = df.drop_duplicates()
Deduplicate ==
    /\ pc = "drop_duplicates"
    /\ df' = DropDuplicates(df)
    /\ pc' = "strip"
    /\ UNCHANGED <<csv, reports_dir, loop_index, loop_pos, sid, df_exploded, fig, files, error>>

\* line 26: review_content stripped
StripReviews ==
    /\ pc = "strip"
    /\ df' = Assign(df, "review_content", [i \in 1..Len(df) |-> StripCell(df[i].review_content)])
    /\ pc' = "split"
    /\ UNCHANGED <<csv, reports_dir, loop_index, loop_pos, sid, df_exploded, fig, files, error>>

\* line 29: category split into a list
SplitCategories ==
    /\ pc = "split"
    /\ IF \A r \in Range(df) : CanSplit(r.category)
       THEN /\ df' = Assign(df, "category",
                            [i \in 1..Len(df) |-> SplitCell(df[i].category)])
            /\ pc' = "for_rating"
            /\ error' = error
       ELSE Raise("split") /\ df' = df
    /\ UNCHANGED <<csv, reports_dir, loop_index, loop_pos, sid, df_exploded, fig, files>>

\* line 32: for x in df.index -- the Index object is taken once; df.drop
\* replaces the frame's data and leaves that object as it was.
EnterRatingLoop ==
    /\ pc = "for_rating"
    /\ loop_index' = Index(df)
    /\ loop_pos' = 1
    /\ pc' = "rating_body"
    /\ UNCHANGED <<csv, reports_dir, df, sid, df_exploded, fig, files, error>>

\* lines 33-34: one iteration, or the loop's end
RatingLoop ==
    /\ pc = "rating_body"
    /\ \/ /\ loop_pos <= Len(loop_index)
          /\ IF HasLabel(df, loop_index[loop_pos])
             THEN /\ df' = SentinelBody(df, loop_index[loop_pos])
                  /\ loop_pos' = loop_pos + 1
                  /\ UNCHANGED <<pc, error>>
             ELSE Raise("rating_loop") /\ UNCHANGED <<df, loop_pos>>
       \/ /\ loop_pos > Len(loop_index)
          /\ pc' = "coerce_rating"
          /\ UNCHANGED <<df, loop_pos, error>>
    /\ UNCHANGED <<csv, reports_dir, loop_index, sid, df_exploded, fig, files>>

\* A plausible slip: values that do not parse become NaN and the run goes on
\* (pd.to_numeric(errors="coerce")).
CoerceRatingLenient ==
    LET Lenient(v) == IF CanFloat(v) THEN Float(v) ELSE NaN
    IN /\ pc = "coerce_rating"
       /\ df' = Assign(df, "rating", [i \in 1..Len(df) |-> Lenient(df[i].rating)])
       /\ pc' = "fillna"
       /\ UNCHANGED <<csv, reports_dir, loop_index, loop_pos, sid, df_exploded, fig, files, error>>

\* line 37: rating = float(x) for every row; one ValueError ends the run
CoerceRating ==
    /\ pc = "coerce_rating"
    /\ IF \A r \in Range(df) : CanFloat(r.rating)
       THEN /\ df' = Assign(df, "rating", [i \in 1..Len(df) |-> Float(df[i].rating)])
            /\ pc' = "fillna"
            /\ error' = error
       ELSE Raise("coerce_rating") /\ df' = df
    /\ UNCHANGED <<csv, reports_dir, loop_index, loop_pos, sid, df_exploded, fig, files>>

\* line 40: rating_count.fillna(0)
FillRatingCount ==
    /\ pc = "fillna"
    /\ df' = Assign(df, "rating_count", [i \in 1..Len(df) |-> FillNa(df[i].rating_count)])
    /\ pc' = "replace_commas"
    /\ UNCHANGED <<csv, reports_dir, loop_index, loop_pos, sid, df_exploded, fig, files, error>>

\* line 41: rating_count.astype(str).str.replace(",", "")
StripCommas ==
    /\ pc = "replace_commas"
    /\ df' = Assign(df, "rating_count", [i \in 1..Len(df) |-> ReplaceCommas(df[i].rating_count)])
    /\ pc' = "coerce_count"
    /\ UNCHANGED <<csv, reports_dir, loop_index, loop_pos, sid, df_exploded, fig, files, error>>

\* line 42: rating_count = float(x) for every row
CoerceRatingCount ==
    /\ pc = "coerce_count"
    /\ IF \A r \in Range(df) : CanFloat(r.rating_count)
       THEN /\ df' = Assign(df, "rating_count",
                            [i \in 1..Len(df) |-> Float(df[i].rating_count)])
            /\ pc' = "detect"
            /\ error' = error
       ELSE Raise("coerce_count") /\ df' = df
    /\ UNCHANGED <<csv, reports_dir, loop_index, loop_pos, sid, df_exploded, fig, files>>

\* line 45: language = detect(review_content) for every row
DetectLanguage ==
    /\ pc = "detect"
    /\ IF \A r \in Range(df) : CanDetect(r.review_content)
       THEN /\ df' = DetectAll(df)
            /\ pc' = "for_language"
            /\ error' = error
       ELSE Raise("detect") /\ df' = df
    /\ UNCHANGED <<csv, reports_dir, loop_index, loop_pos, sid, df_exploded, fig, files>>

\* line 48: for x in df.index
EnterLanguageLoop ==
    /\ pc = "for_language"
    /\ loop_index' = Index(df)
    /\ loop_pos' = 1
    /\ pc' = "language_body"
    /\ UNCHANGED <<csv, reports_dir, df, sid, df_exploded, fig, files, error>>

\* lines 49-50: one iteration, or the loop's end
LanguageLoop ==
    /\ pc = "language_body"
    /\ \/ /\ loop_pos <= Len(loop_index)
          /\ IF HasLabel(df, loop_index[loop_pos])
             THEN /\ df' = LanguageBody(df, loop_index[loop_pos])
                  /\ loop_pos' = loop_pos + 1
                  /\ UNCHANGED <<pc, error>>
             ELSE Raise("language_loop") /\ UNCHANGED <<df, loop_pos>>
       \/ /\ loop_pos > Len(loop_index)
          /\ pc' = "reset_index"
          /\ UNCHANGED <<df, loop_pos, error>>
    /\ UNCHANGED <<csv, reports_dir, loop_index, sid, df_exploded, fig, files>>

\* line 52: df.reset_index(drop=True, inplace=True)
Reindex ==
    /\ pc = "reset_index"
    /\ df' = ResetIndex(df)
    /\ pc' = "lexicon"
    /\ UNCHANGED <<csv, reports_dir, loop_index, loop_pos, sid, df_exploded, fig, files, error>>

\* ---------------------------------------------------------- sentiment
\* What polarity_scores returns, in thousandths: "neg", "neu" and "pos" are
\* rounded to three places, so they may sum to 999 or 1001.
Scores(neg, neu, pos, compound) ==
    [neg |-> neg, neu |-> neu, pos |-> pos, compound |-> compound]
ScoreOf(c) ==
    IF c >= 0 THEN Scores(0, 1000 - c, c, c) ELSE Scores(-c, 1000 + c, 0, c)
ScoreSet == {ScoreOf(NegThreshold - 1), ScoreOf(NegThreshold), ScoreOf(PosThreshold)}

\* A plausible slip: the boundary taken as exclusive.
get_sentiment_strict(review) ==
    IF review > PosThreshold THEN "Positivo"
    ELSE IF review < NegThreshold THEN "Negative"
    ELSE "Neutral"

\* lines 56-62
get_sentiment(review) ==
    IF review >= PosThreshold THEN "Positivo"
    ELSE IF review < NegThreshold THEN "Negative"
    ELSE "Neutral"

Texts(frame) == {r.review_content.str : r \in Range(frame)}

\* lines 67-69: the four scores of each review, as four float columns
Annotate(frame, scorer) ==
    [i \in 1..Len(frame) |->
        LET sc == scorer[frame[i].review_content.str]
        IN With(With(With(With(frame[i],
               "negative", Num(sc.neg)), "neutral", Num(sc.neu)),
               "positive", Num(sc.pos)), "compound", Num(sc.compound))]

\* line 71's lambda: the label, a str kept as one token
LabelCell(v) == Str(<<get_sentiment(v.num)>>)

\* ------------------------------------------------------------ reshape
\* A plausible slip: only the first category of each row is kept.
ExplodeFirstOnly(frame) ==
    [i \in 1..Len(frame) |->
        With(frame[i], "category",
             IF frame[i].category.list = <<>> THEN NaN
             ELSE frame[i].category.list[1])]

\* DataFrame.explode("category"): one row per list element, in list order,
\* the other cells and the label repeated; an empty list gives one NaN row.
ExplodeRow(r) ==
    IF ~IsList(r.category) THEN <<r>>
    ELSE IF r.category.list = <<>> THEN <<With(r, "category", NaN)>>
    ELSE [j \in 1..Len(r.category.list) |-> With(r, "category", r.category.list[j])]
RECURSIVE ExplodeFrom(_, _)
ExplodeFrom(frame, i) ==
    IF i > Len(frame) THEN <<>>
    ELSE ExplodeRow(frame[i]) \o ExplodeFrom(frame, i + 1)
Explode(frame) == ExplodeFrom(frame, 1)

\* line 75: the three score columns times 100
TimesPercent(v) == Num(v.num * Percent)
Rescale(frame) ==
    [i \in 1..Len(frame) |->
        With(With(With(frame[i],
            "negative", TimesPercent(frame[i].negative)),
            "neutral", TimesPercent(frame[i].neutral)),
            "positive", TimesPercent(frame[i].positive))]

\* The sort key of line 78.
Key(r) == <<r.positive.num, r.neutral.num, r.negative.num>>

\* A plausible slip: the second key read the wrong way round and the third
\* left out.
KeyGtPositiveOnly(a, b) ==
    \/ a[1] > b[1]
    \/ a[1] = b[1] /\ a[2] < b[2]

\* by=[positive, neutral, negative], ascending=False: the keys compared in
\* that order, the greater first.
KeyGt(a, b) ==
    \/ a[1] > b[1]
    \/ a[1] = b[1] /\ a[2] > b[2]
    \/ a[1] = b[1] /\ a[2] = b[2] /\ a[3] > b[3]

\* sort_values(by=[positive, neutral, negative], ascending=False): a stable
\* sort, rows of equal keys keep their order.
InsertSorted(sorted, r) ==
    LET k == Cardinality({i \in 1..Len(sorted) : ~KeyGt(Key(r), Key(sorted[i]))})
    IN SubSeq(sorted, 1, k) \o <<r>> \o SubSeq(sorted, k + 1, Len(sorted))
RECURSIVE SortUpTo(_, _)
SortUpTo(frame, n) ==
    IF n = 0 THEN <<>> ELSE InsertSorted(SortUpTo(frame, n - 1), frame[n])
SortValues(frame) == SortUpTo(frame, Len(frame))

\* .head(n)
HeadRows(frame, n) == SubSeq(frame, 1, Min(n, Len(frame)))

\* line 78
Top(frame) == HeadRows(SortValues(frame), TopN)

\* line 195's lambda
Truncate(v) ==
    IF Len(v.str) > NameCut
    THEN Str(SubSeq(v.str, 1, NameCut) \o <<".", ".", ".">>)
    ELSE v

Column(frame, col) == [i \in 1..Len(frame) |-> frame[i][col]]

\* lines 64-65: the lexicon is fetched and the analyzer built.  The analyzer
\* is an external, deterministic scorer: one score per distinct text.
LoadLexicon ==
    /\ pc = "lexicon"
    /\ sid' \in [Texts(df) -> ScoreSet]
    /\ pc' = "polarity"
    /\ UNCHANGED <<csv, reports_dir, df, loop_index, loop_pos, df_exploded, fig, files, error>>

\* lines 67-69
Polarity ==
    /\ pc = "polarity"
    /\ df' = Annotate(df, sid)
    /\ pc' = "label"
    /\ UNCHANGED <<csv, reports_dir, loop_index, loop_pos, sid, df_exploded, fig, files, error>>

\* line 71: the compound column is overwritten with the label
LabelCompound ==
    /\ pc = "label"
    /\ df' = Assign(df, "compound", [i \in 1..Len(df) |-> LabelCell(df[i].compound)])
    /\ pc' = "explode"
    /\ UNCHANGED <<csv, reports_dir, loop_index, loop_pos, sid, df_exploded, fig, files, error>>

\* line 74
ExplodeCategories ==
    /\ pc = "explode"
    /\ df_exploded' = Explode(df)
    /\ pc' = "rescale"
    /\ UNCHANGED <<csv, reports_dir, df, loop_index, loop_pos, sid, fig, files, error>>

\* line 75
RescaleScores ==
    /\ pc = "rescale"
    /\ df_exploded' = Rescale(df_exploded)
    /\ pc' = "rank"
    /\ UNCHANGED <<csv, reports_dir, df, loop_index, loop_pos, sid, fig, files, error>>

\* line 78: df_exploded is rebound to its first TopN rows in sorted order
Rank ==
    /\ pc = "rank"
    /\ df_exploded' = Top(df_exploded)
    /\ pc' = "chart1"
    /\ UNCHANGED <<csv, reports_dir, df, loop_index, loop_pos, sid, fig, files, error>>

\* ------------------------------------------------------------- charts
ChartStage == <<"chart1", "chart2", "chart3", "chart4", "chart5", "chart6">>
ChartFile ==
    <<"sentimientos_por_categoria.html", "sentimientos_por_rating.html",
      "densidad_sentimientos.html", "longitud_vs_sentimiento.html",
      "reviews_categoria_stack.html", "sentimientos_por_producto.html">>

\* A chart block: the figure is built and written, or one of its calls
\* raises; nothing catches the exception, so the script ends there.
Render(k, figure, nxt) ==
    \/ /\ fig' = figure
       /\ files' = files \cup {ChartFile[k]}
       /\ pc' = nxt
       /\ error' = error
    \/ /\ Raise(ChartStage[k])
       /\ UNCHANGED <<fig, files>>

\* lines 84-93: the rows grouped by category
Chart1 ==
    /\ pc = "chart1"
    /\ Render(1, [chart |-> 1,
                  x |-> {r.category : r \in Range(df_exploded)}], "chart2")
    /\ UNCHANGED <<csv, reports_dir, df, loop_index, loop_pos, sid, df_exploded>>

\* lines 96-110
Chart2 ==
    /\ pc = "chart2"
    /\ Render(2, [chart |-> 2, x |-> Column(df_exploded, "rating")], "chart3")
    /\ UNCHANGED <<csv, reports_dir, df, loop_index, loop_pos, sid, df_exploded>>

\* lines 113-142
Chart3 ==
    /\ pc = "chart3"
    /\ Render(3, [chart |-> 3, x |-> Column(df_exploded, "negative")
                                      \o Column(df_exploded, "positive")], "chart4")
    /\ UNCHANGED <<csv, reports_dir, df, loop_index, loop_pos, sid, df_exploded>>

\* lines 145-164: the review_length column is added, then the scatter is
\* given the columns review_length and compound
Chart4 ==
    /\ pc = "chart4"
    /\ df_exploded' = [i \in 1..Len(df_exploded) |->
          With(df_exploded[i], "review_length",
               Num(Len(df_exploded[i].review_content.str)))]
    /\ Render(4, [chart |-> 4,
                  x |-> Column(df_exploded', "review_length"),
                  y |-> Column(df_exploded', "compound"),
                  color |-> Column(df_exploded', "compound")], "chart5")
    /\ UNCHANGED <<csv, reports_dir, df, loop_index, loop_pos, sid>>

\* lines 167-192
Chart5 ==
    /\ pc = "chart5"
    /\ Render(5, [chart |-> 5, x |-> Column(df_exploded, "category"),
                  y |-> Column(df_exploded, "positive")], "chart6")
    /\ UNCHANGED <<csv, reports_dir, df, loop_index, loop_pos, sid, df_exploded>>

\* lines 195-230
Chart6 ==
    /\ pc = "chart6"
    /\ df_exploded' = Assign(df_exploded, "product_name",
          [i \in 1..Len(df_exploded) |-> Truncate(df_exploded[i].product_name)])
    /\ Render(6, [chart |-> 6, x |-> Column(df_exploded', "product_name"),
                  y |-> Column(df_exploded', "positive")], "done")
    /\ UNCHANGED <<csv, reports_dir, df, loop_index, loop_pos, sid>>

Next ==
    \/ MakeDirs \/ Load \/ Deduplicate \/ StripReviews \/ SplitCategories
    \/ EnterRatingLoop \/ RatingLoop \/ CoerceRating
    \/ FillRatingCount \/ StripCommas \/ CoerceRatingCount
    \/ DetectLanguage \/ EnterLanguageLoop \/ LanguageLoop \/ Reindex
    \/ LoadLexicon \/ Polarity \/ LabelCompound
    \/ ExplodeCategories \/ RescaleScores \/ Rank
    \/ Chart1 \/ Chart2 \/ Chart3 \/ Chart4 \/ Chart5 \/ Chart6

Spec == Init /\ [][Next]_vars

\* ------------------------------------------ the stages run in one go
\* The two loops run to their end from position pos of the index taken.
RECURSIVE RatingLoopFrom(_, _, _)
RatingLoopFrom(frame, index, pos) ==
    IF pos > Len(index) THEN frame
    ELSE RatingLoopFrom(SentinelBody(frame, index[pos]), index, pos + 1)
RECURSIVE LanguageLoopFrom(_, _, _)
LanguageLoopFrom(frame, index, pos) ==
    IF pos > Len(index) THEN frame
    ELSE LanguageLoopFrom(LanguageBody(frame, index[pos]), index, pos + 1)

\* Lines 15-45 on a dataset no statement of which raises.
Detected(lines) ==
    LET Col(frame, col, F(_)) ==
            Assign(frame, col, [i \in 1..Len(frame) |-> F(frame[i][col])])
        split == Col(Col(DropDuplicates(ReadCsv(lines)),
                         "review_content", StripCell), "category", SplitCell)
        rated == Col(RatingLoopFrom(split, Index(split), 1), "rating", Float)
        counted == Col(Col(Col(rated, "rating_count", FillNa),
                           "rating_count", ReplaceCommas), "rating_count", Float)
    IN DetectAll(counted)
\* Lines 15-52.
Cleaned(lines) ==
    LET detected == Detected(lines)
    IN ResetIndex(LanguageLoopFrom(detected, Index(detected), 1))

\* The state the script is in at statement at, after the lines before it ran
\* without raising on the file lines with the analyzer scorer.
Arrived(lines, scorer, at, frame, exploded) ==
    /\ csv = lines
    /\ reports_dir = TRUE
    /\ df = frame
    /\ loop_index = Index(Detected(lines))
    /\ loop_pos = Len(Detected(lines)) + 1
    /\ sid = scorer
    /\ df_exploded = exploded
    /\ fig = [chart |-> 0]
    /\ files = {}
    /\ pc = at
    /\ error = "none"

\* ---- line 71 on its own: one clean review, every compound score
GoodLine ==
    Line(ShortName, Str(<<"a", "|", "b">>), Str(<<"4">>), Str(<<"1", ",", "2">>), Str(<<"g">>))

InitSentiment ==
    \E c \in (-CompoundMax)..CompoundMax :
        LET scorer == [t \in {<<"g">>} |-> ScoreOf(c)]
        IN Arrived(<<GoodLine>>, scorer, "label",
                   Annotate(Cleaned(<<GoodLine>>), scorer), <<>>)

NextSentiment == LabelCompound

SpecSentiment == InitSentiment /\ [][NextSentiment]_vars

\* ---- line 78 on its own: datasets of more exploded rows than TopN
\* The review of line i: i letters, so that no two lines are duplicates.
Gs(i) == [k \in 1..i |-> "g"]
BigLine(i, a) ==
    Line(ShortName,
         IF (i + a) % 3 = 0 THEN Str(<<"a", "|", "b", "|", "c">>)
         ELSE Str(<<"a", "|", "b">>),
         Str(<<"4">>), Str(<<"1", "2">>), Str(Gs(i)))
BigCsv(n, a) == [i \in 1..n |-> BigLine(i, a)]
\* Scores with ties on the first key and on the first two keys.
BigScore(i, b) ==
    LET pos == 100 * ((i * (b + 1)) % 3)
        neg == 100 * (i % 2) + ((i \div 2) % 2)
    IN Scores(neg, 1000 - pos - 100 * (i % 2), pos, pos - neg)
BigScorer(n, b) == [t \in {Gs(i) : i \in 1..n} |-> BigScore(Len(t), b)]

InitRank ==
    \E n \in 0..MaxBig, a \in 0..2, b \in 0..2 :
        LET scored == Annotate(Cleaned(BigCsv(n, a)), BigScorer(n, b))
            labelled == Assign(scored, "compound",
                               [i \in 1..Len(scored) |-> LabelCell(scored[i].compound)])
        IN Arrived(BigCsv(n, a), BigScorer(n, b), "rank",
                   labelled, Rescale(Explode(labelled)))

NextRank == Rank

SpecRank == InitRank /\ [][NextRank]_vars

\* The stages run in one go agree with the statements run one by one.
StagesAgree ==
    /\ pc = "for_language" => df = Detected(csv)
    /\ pc = "lexicon" =>
          /\ df = Cleaned(csv)
          /\ loop_index = Index(Detected(csv))
          /\ loop_pos = Len(Detected(csv)) + 1
          /\ reports_dir /\ files = {} /\ fig = [chart |-> 0] /\ error = "none"

\* ============================================================= claims
\* Statements reached once the cleaning (lines 17-52) is over.
AfterCleaning ==
    \/ pc \in {"lexicon", "polarity", "label", "explode", "rescale", "rank",
               "chart1", "chart2", "chart3", "chart4", "chart5", "chart6", "done"}
    \/ pc = "halted" /\ error \in Range(ChartStage)

\* The labels of the file lines that are no duplicate of an earlier line and
\* do not carry the sentinel rating.
FirstOccurrence(i) == \A j \in 1..(i - 1) : csv[j] # csv[i]
SurvivorLabels ==
    {i - 1 : i \in {k \in 1..Len(csv) : FirstOccurrence(k) /\ csv[k].rating # Str(<<"|">>)}}
Labels(frame) == {frame[i].idx : i \in 1..Len(frame)}
InOrder(frame) ==
    \A i, j \in 1..Len(frame) : i < j => frame[i].idx < frame[j].idx

\* C1: the label derived from a compound score c (in thousandths) is
\* "Positivo" exactly when c >= 0.05, "Negative" exactly when c < -0.05 and
\* "Neutral" otherwise; each score gets exactly one of the three labels.
C1_LabelThresholds ==
    pc = "explode" =>
        \A r \in Range(df) :
            LET c == sid[r.review_content.str].compound
                l == r.compound
            IN /\ l \in {Str(<<"Positivo">>), Str(<<"Negative">>), Str(<<"Neutral">>)}
               /\ l = Str(<<"Positivo">>) <=> c >= 50
               /\ l = Str(<<"Negative">>) <=> c < -50
               /\ l = Str(<<"Neutral">>) <=> (c < 50 /\ c >= -50)
C1_Witness ==
    /\ pc = "explode"
    /\ Len(df) = 1
    /\ sid[df[1].review_content.str].compound = 50
    /\ df[1].compound = Str(<<"Positivo">>)

\* C2: every row that survives cleaning has a float rating in [1,5] and a
\* non-negative float rating_count.
C2_RatingInRange ==
    AfterCleaning =>
        \A r \in Range(df) :
            /\ IsNum(r.rating) /\ r.rating.num >= 1 /\ r.rating.num <= 5
            /\ IsNum(r.rating_count) /\ r.rating_count.num >= 0

\* C3: after the whole cleaning sequence no two surviving rows are
\* identical in all their fields.
C3_NoDuplicateRows ==
    AfterCleaning =>
        \A i, j \in 1..Len(df) : i < j => Cols(df[i]) # Cols(df[j])

\* C4: the rating loop removes every row whose rating is the sentinel "|",
\* consecutive ones included, and no other row; the rows left keep their
\* order and their ratings; the loop never raises; no sentinel reaches the
\* float coercion.
C4_SentinelRowsDropped ==
    /\ error # "rating_loop"
    /\ pc = "coerce_rating" =>
          /\ Labels(df) = SurvivorLabels
          /\ Len(df) = Cardinality(SurvivorLabels)
          /\ InOrder(df)
          /\ \A r \in Range(df) :
                r.rating # Str(<<"|">>) /\ r.rating = csv[r.idx + 1].rating
C4_Witness ==
    /\ pc = "coerce_rating"
    /\ Len(csv) = 3
    /\ csv[1].rating = Str(<<"|">>) /\ csv[2].rating = Str(<<"|">>)
    /\ csv[1] # csv[2]
    /\ csv[3].rating # Str(<<"|">>)
    /\ Index(df) = <<2>>

\* C5: when chart k fails, the files of the other five charts are still
\* written.
C5_ChartsIndependent ==
    \A k \in 1..6 :
        (pc = "halted" /\ error = ChartStage[k]) =>
            \A j \in (1..6) \ {k} : ChartFile[j] \in files

\* C6: when a row that survived the sentinel drop has a rating that float()
\* rejects, the run ends at the rating coercion: the reports directory
\* exists, and no later stage has run (rating_count untouched, no language
\* column, no analyzer, nothing exploded) and no chart file is written.
BadRatingSurvives ==
    \E i \in 1..Len(csv) : csv[i].rating # Str(<<"|">>) /\ ~CanFloat(csv[i].rating)
PastSentinelDrop ==
    /\ pc \notin {"makedirs", "read_csv", "drop_duplicates", "strip", "split",
                  "for_rating", "rating_body"}
    /\ ~(pc = "halted" /\ error \in {"split", "rating_loop"})
C6_HaltsAtRatingCoercion ==
    (BadRatingSurvives /\ PastSentinelDrop) =>
        /\ pc = "coerce_rating" \/ (pc = "halted" /\ error = "coerce_rating")
        /\ reports_dir
        /\ files = {}
        /\ sid = <<>>
        /\ df_exploded = <<>>
        /\ \A r \in Range(df) :
              /\ "language" \notin DOMAIN r
              /\ r.rating_count = csv[r.idx + 1].rating_count
C6_Witness ==
    /\ pc = "halted" /\ error = "coerce_rating"
    /\ reports_dir
    /\ \E r \in Range(df) : ~CanFloat(r.rating)
    /\ \E r \in Range(df) : CanFloat(r.rating)

\* C7: the scatter of chart 4 is given, for every record it plots, the
\* numeric compound score in [-1,1] as its y value and as its colour value.
C7_ScatterGetsScore ==
    fig.chart = 4 =>
        \A i \in 1..Len(fig.y) :
            /\ IsNum(fig.y[i]) /\ fig.y[i].num >= -1000 /\ fig.y[i].num <= 1000
            /\ IsNum(fig.color[i]) /\ fig.color[i] = fig.y[i]

\* C8: the ranked slice of an exploded dataset of n rows has min(20, n)
\* rows, sorted non-increasing by (positive, neutral, negative) compared
\* lexicographically; it is made of rows of the exploded dataset, and no row
\* left out has a strictly greater tuple than a row kept.
LexGe(a, b) ==
    \/ a[1] > b[1]
    \/ a[1] = b[1] /\ a[2] > b[2]
    \/ a[1] = b[1] /\ a[2] = b[2] /\ a[3] >= b[3]
Triple(r) == <<r.positive.num, r.neutral.num, r.negative.num>>
Count(frame, r) == Cardinality({i \in 1..Len(frame) : frame[i] = r})
Unranked == Rescale(Explode(df))
C8_RankedSlice ==
    pc = "chart1" =>
        LET all == Unranked
            kept == df_exploded
        IN /\ Len(kept) = (IF Len(all) < 20 THEN Len(all) ELSE 20)
           /\ \A i \in 1..(Len(kept) - 1) : LexGe(Triple(kept[i]), Triple(kept[i + 1]))
           /\ \A r \in Range(kept) : Count(kept, r) <= Count(all, r)
           /\ \A r \in Range(all) :
                 Count(kept, r) < Count(all, r) =>
                     \A q \in Range(kept) : LexGe(Triple(q), Triple(r))
C8_Witness ==
    /\ pc = "chart1"
    /\ Len(Unranked) > 20
    /\ Len(df_exploded) = 20
    /\ \E i \in 1..19 :
          /\ df_exploded[i].positive = df_exploded[i + 1].positive
          /\ df_exploded[i].neutral = df_exploded[i + 1].neutral
          /\ df_exploded[i].negative.num > df_exploded[i + 1].negative.num
    /\ \E r \in Range(Unranked) : Count(df_exploded, r) = 0

\* C9: exploding yields one row per element of each row's category list, in
\* list order, every other field (the label included) as in the original
\* row, so the row count is the sum of the list lengths; the split never
\* produces an empty list.
RECURSIVE Offset(_)
Offset(i) == IF i <= 1 THEN 0 ELSE Offset(i - 1) + Len(df[i - 1].category.list)
C9_ExplodeRowPerCategory ==
    /\ pc \in {"for_rating", "rating_body", "coerce_rating", "explode", "rescale"} =>
          \A r \in Range(df) : IsList(r.category) /\ Len(r.category.list) >= 1
    /\ pc = "rescale" =>
          /\ Len(df_exploded) = Offset(Len(df) + 1)
          /\ \A i \in 1..Len(df) :
                \A j \in 1..Len(df[i].category.list) :
                    LET e == df_exploded[Offset(i) + j]
                    IN /\ DOMAIN e = DOMAIN df[i]
                       /\ e.category = df[i].category.list[j]
                       /\ \A c \in DOMAIN e \ {"category"} : e[c] = df[i][c]
C9_Witness ==
    /\ pc = "rescale"
    /\ Len(df) = 2
    /\ df[1].category = List(<<Str(<<"a">>), Str(<<"b">>)>>)
    /\ df[2].category = List(<<Str(<<>>)>>)
    /\ Len(df_exploded) = 3
    /\ df_exploded[1].category = Str(<<"a">>)
    /\ df_exploded[2].category = Str(<<"b">>)

\* C10: the rating_count repair turns a missing value into 0.0 and a string
\* with thousands-separator commas into the float of the string without its
\* commas ("1,2" becomes 12.0); a missing value drops no row and does not
\* end the run.
Uncomma(v) == Str(SelectSeq(v.str, LAMBDA ch : ch # ","))
C10_RatingCountRepair ==
    /\ pc = "detect" =>
          /\ Labels(df) = SurvivorLabels
          /\ \A r \in Range(df) :
                LET raw == csv[r.idx + 1].rating_count
                IN /\ IsNaN(raw) => r.rating_count = Num(0)
                   /\ raw = Str(<<"1", ",", "2">>) => r.rating_count = Num(12)
                   /\ IsStr(raw) => r.rating_count = Float(Uncomma(raw))
    /\ (pc = "halted" /\ error = "coerce_count") =>
          \E r \in Range(df) :
              LET raw == csv[r.idx + 1].rating_count
              IN IsStr(raw) /\ ~CanFloat(Uncomma(raw))
    /\ error \notin {"fillna", "replace_commas"}
C10_Witness ==
    /\ pc = "detect"
    /\ \E r \in Range(df) :
          IsNaN(csv[r.idx + 1].rating_count) /\ r.rating_count = Num(0)
    /\ \E r \in Range(df) :
          csv[r.idx + 1].rating_count = Str(<<"1", ",", "2">>) /\ r.rating_count = Num(12)

====
